---- MODULE Spec2Model ----
(***************************************************************************)
(* Model of the delayed-scan branch of run_wifi_script (src/main.rs):      *)
(* the scan loop that fills last_seen and device_intervals, and the report *)
(* that is built from device_intervals and the last scan's networks.       *)
(*                                                                         *)
(* Time is an Instant counted in ticks, TicksPerSec ticks to the second.   *)
(* The clock advances while the task is suspended in scan().await and in   *)
(* sleep().await; the synchronous code between two awaits takes less than  *)
(* a tick.                                                                 *)
(***************************************************************************)
EXTENDS Integers, Sequences, FiniteSets, TLC

\* ---------------------------------------------------------------- bounds
TicksPerSec  == 2      \* resolution of the modelled clock
MaxScanTicks == 1      \* longest time one scan().await takes
MaxOversleep == 1      \* longest time sleep() may overshoot its duration
MaxNets      == 2      \* longest list of networks one scan returns
MaxScanSecs  == 13     \* largest configured scan_duration

\* ------------------------------------------------------ program constants
Threshold == 5         \* `as_secs() > 5`
SleepSecs == 5         \* `Duration::from_secs(5)` between two scans

Devices == {"A", "B"}  \* the mac addresses a scan can return
NoTime  == -1          \* "no entry in last_seen"

ScanDurations == {1, MaxScanSecs}

VARIABLES
    pc,                  \* position of the task in run_wifi_script
    clock,               \* Instant::now(), in ticks
    scan_start_time,
    scan_duration,       \* config.scan_duration, seconds
    networks,            \* result of the last scan: sequence of macs
    last_seen,           \* mac -> Instant, NoTime when the key is absent
    device_intervals,    \* mac -> sequence of <<start, end>>, <<>> when absent
    seen,                \* history: mac -> the instants at which it was sighted
    formatted_wifi_data, \* the report map: sequence of [mac, durations]
    written              \* wifi_scheduleddata.json has been written

vars == <<pc, clock, scan_start_time, scan_duration, networks, last_seen,
          device_intervals, seen, formatted_wifi_data, written>>

\* ------------------------------------------------------------ pure helpers

\* Duration::as_secs: whole seconds of a duration given in ticks.
as_secs(ticks) == ticks \div TicksPerSec

\* Duration::from_secs
from_secs(secs) == secs * TicksPerSec

Range(s) == {s[i] : i \in 1..Len(s)}

\* All sequences over S of length at most n.
SeqsUpTo(S, n) == UNION {[1..k -> S] : k \in 0..n}

\* The tracker's state as one value.
Tracker(ls, iv, sn) == [last_seen |-> ls, device_intervals |-> iv, seen |-> sn]

\* The interval pushed when a device reappears after a gap.
ClosedInterval(device_last_seen, now) == <<device_last_seen, now>>

\* The test that decides whether a sighting records an interval.
GapExceeds(device_last_seen, now) == as_secs(now - device_last_seen) > Threshold

\* IngestOne without `*device_last_seen = now`: last_seen keeps the first sighting.
IngestOneKeepsLastSeen(st, device_id, now) ==
    LET device_last_seen ==
            IF st.last_seen[device_id] = NoTime THEN now
            ELSE st.last_seen[device_id]
        iv == IF GapExceeds(device_last_seen, now)
              THEN [st.device_intervals EXCEPT
                       ![device_id] = Append(@, ClosedInterval(device_last_seen, now))]
              ELSE st.device_intervals
    IN  Tracker([st.last_seen EXCEPT ![device_id] = device_last_seen],
                iv,
                [st.seen EXCEPT ![device_id] = Append(@, now)])

\* IngestOne stamping every known device, not only the sighted one.
IngestOneStampsAll(st, device_id, now) ==
    LET device_last_seen ==
            IF st.last_seen[device_id] = NoTime THEN now
            ELSE st.last_seen[device_id]
        iv == IF GapExceeds(device_last_seen, now)
              THEN [st.device_intervals EXCEPT
                       ![device_id] = Append(@, ClosedInterval(device_last_seen, now))]
              ELSE st.device_intervals
    IN  Tracker([d \in Devices |->
                    IF d = device_id \/ st.last_seen[d] # NoTime THEN now ELSE NoTime],
                iv,
                [st.seen EXCEPT ![device_id] = Append(@, now)])

\* Body of `for network in networks.iter()` for one network.
IngestOne(st, device_id, now) ==
    LET device_last_seen ==
            IF st.last_seen[device_id] = NoTime THEN now
            ELSE st.last_seen[device_id]
        iv == IF GapExceeds(device_last_seen, now)
              THEN [st.device_intervals EXCEPT
                       ![device_id] = Append(@, ClosedInterval(device_last_seen, now))]
              ELSE st.device_intervals
    IN  Tracker([st.last_seen EXCEPT ![device_id] = now],
                iv,
                [st.seen EXCEPT ![device_id] = Append(@, now)])

\* The whole `for network in networks.iter()` loop.
RECURSIVE IngestAll(_, _, _)
IngestAll(st, nets, now) ==
    IF nets = <<>> THEN st
    ELSE IngestAll(IngestOne(st, Head(nets), now), Tail(nets), now)

\* One formatted "start-end" pair of the report.
FormatInterval(iv, now) == <<as_secs(now - iv[1]), as_secs(now - iv[2])>>

\* The `durations` of one device.
Durations(intervals, now) ==
    [i \in 1..Len(intervals) |-> FormatInterval(intervals[i], now)]

\* Keys of the HashMap device_intervals.
IntervalKeys == {d \in Devices : device_intervals[d] # <<>>}

ReportedMacs == {formatted_wifi_data[i].mac : i \in 1..Len(formatted_wifi_data)}

\* `while Instant::now().duration_since(scan_start_time) < from_secs(scan_duration)`
LoopCondition == clock - scan_start_time < from_secs(scan_duration)

\* ------------------------------------------------------------------ state

Init ==
    /\ pc = "loop"
    /\ clock = 0
    /\ scan_start_time = 0
    /\ scan_duration \in ScanDurations
    /\ networks = <<>>
    /\ last_seen = [d \in Devices |-> NoTime]
    /\ device_intervals = [d \in Devices |-> <<>>]
    /\ seen = [d \in Devices |-> <<>>]
    /\ formatted_wifi_data = <<>>
    /\ written = FALSE

\* `networks = scan().await?` returning Ok.
ScanOk ==
    /\ pc = "loop"
    /\ LoopCondition
    /\ \E nets \in SeqsUpTo(Devices, MaxNets), dt \in 0..MaxScanTicks :
          /\ networks' = nets
          /\ clock' = clock + dt
    /\ pc' = "ingest"
    /\ UNCHANGED <<scan_start_time, scan_duration, last_seen, device_intervals,
                   seen, formatted_wifi_data, written>>

\* `scan().await?` returning Err: run_wifi_script returns the error.
ScanFail ==
    /\ pc = "loop"
    /\ LoopCondition
    /\ \E dt \in 0..MaxScanTicks : clock' = clock + dt
    /\ pc' = "failed"
    /\ UNCHANGED <<scan_start_time, scan_duration, networks, last_seen,
                   device_intervals, seen, formatted_wifi_data, written>>

\* The for loop over the scanned networks.
Ingest ==
    /\ pc = "ingest"
    /\ LET st == IngestAll(Tracker(last_seen, device_intervals, seen), networks, clock)
       IN  /\ last_seen' = st.last_seen
           /\ device_intervals' = st.device_intervals
           /\ seen' = st.seen
    /\ pc' = "sleep"
    /\ UNCHANGED <<clock, scan_start_time, scan_duration, networks,
                   formatted_wifi_data, written>>

\* `tokio::time::sleep(from_secs(5)).await`
Sleep ==
    /\ pc = "sleep"
    /\ \E over \in 0..MaxOversleep : clock' = clock + from_secs(SleepSecs) + over
    /\ pc' = "loop"
    /\ UNCHANGED <<scan_start_time, scan_duration, networks, last_seen,
                   device_intervals, seen, formatted_wifi_data, written>>

\* The while condition is false: fall through to the report.
LoopExit ==
    /\ pc = "loop"
    /\ ~LoopCondition
    /\ pc' = "report"
    /\ UNCHANGED <<clock, scan_start_time, scan_duration, networks, last_seen,
                   device_intervals, seen, formatted_wifi_data, written>>

\* One iteration of `for (mac, intervals) in &device_intervals` whose
\* `networks.iter().find(..)` finds the mac.  HashMap order is arbitrary.
ReportEntry ==
    /\ pc = "report"
    /\ \E mac \in IntervalKeys \ ReportedMacs :
          /\ mac \in Range(networks)
          /\ formatted_wifi_data' = Append(formatted_wifi_data,
                 [mac |-> mac, durations |-> Durations(device_intervals[mac], clock)])
    /\ UNCHANGED <<pc, clock, scan_start_time, scan_duration, networks, last_seen,
                   device_intervals, seen, written>>

\* One iteration whose find(..) returns None: unwrap() panics.
ReportPanic ==
    /\ pc = "report"
    /\ \E mac \in IntervalKeys \ ReportedMacs : mac \notin Range(networks)
    /\ pc' = "panicked"
    /\ UNCHANGED <<clock, scan_start_time, scan_duration, networks, last_seen,
                   device_intervals, seen, formatted_wifi_data, written>>

\* write_json_to_file(..) after the loop, then Ok(true).
WriteReport ==
    /\ pc = "report"
    /\ IntervalKeys \subseteq ReportedMacs
    /\ written' = TRUE
    /\ pc' = "done"
    /\ UNCHANGED <<clock, scan_start_time, scan_duration, networks, last_seen,
                   device_intervals, seen, formatted_wifi_data>>

Next ==
    \/ ScanOk
    \/ ScanFail
    \/ Ingest
    \/ Sleep
    \/ LoopExit
    \/ ReportEntry
    \/ ReportPanic
    \/ WriteReport

Spec == Init /\ [][Next]_vars

\* ------------------------------------------------- vocabulary of the claims

\* Two sightings more than the threshold apart.
Silent(a, b) == b - a > from_secs(Threshold)

\* Index of the first sighting of the span of continuous presence that the
\* i-th sighting of the history s belongs to.
RECURSIVE SpanStartIdx(_, _)
SpanStartIdx(s, i) ==
    IF i = 1 \/ Silent(s[i - 1], s[i]) THEN i ELSE SpanStartIdx(s, i - 1)

\* Start of the span that is open after the sightings s (s non-empty).
OpenStart(s) == s[SpanStartIdx(s, Len(s))]

\* The tracker before any sighting.
EmptyTracker ==
    Tracker([d \in Devices |-> NoTime], [d \in Devices |-> <<>>],
            [d \in Devices |-> <<>>])

\* The tracker after device d alone is sighted at the given instants.
RECURSIVE ReplayAlone(_, _, _)
ReplayAlone(st, d, times) ==
    IF times = <<>> THEN st
    ELSE ReplayAlone(IngestOne(st, d, Head(times)), d, Tail(times))

\* ------------------------------------------------------------------ claims

\* C1: a device sighted at t0 and next at t0+threshold has no closed
\* interval; sighted at t0 and next at t0+threshold+1 it has exactly the one
\* closed interval (t0, t0), and its new span starts at the new sighting.
ThresholdBoundary ==
    \A d \in Devices :
        Len(seen[d]) = 2 =>
            LET t0 == seen[d][1]
                t1 == seen[d][2]
            IN  /\ t1 - t0 = from_secs(Threshold) => device_intervals[d] = <<>>
                /\ t1 - t0 = from_secs(Threshold + 1) =>
                      /\ device_intervals[d] = << <<t0, t0>> >>
                      /\ last_seen[d] = t1

\* C2: the interval appended when a device reappears after a gap is
\* (open_start[d], last_seen[d]) with the values held before the sighting:
\* the span of presence that ended, not the silence gap.
IngestClosesEndedSpan ==
    [][\A d \in Devices :
          Len(device_intervals'[d]) = Len(device_intervals[d]) + 1 =>
              device_intervals'[d][Len(device_intervals'[d])] =
                  <<OpenStart(seen[d]), last_seen[d]>>]_vars

\* C3: at the end of a run every sighted device has at least one interval,
\* its last interval is (open_start[d], last_seen[d]), and a device sighted
\* exactly once at t has exactly the interval (t, t).
FinalizeClosesOpenSpans ==
    pc = "done" =>
        \A d \in Devices :
            seen[d] # <<>> =>
                /\ device_intervals[d] # <<>>
                /\ device_intervals[d][Len(device_intervals[d])] =
                       <<OpenStart(seen[d]), last_seen[d]>>
                /\ Len(seen[d]) = 1 =>
                       device_intervals[d] = << <<seen[d][1], seen[d][1]>> >>

\* C4: every closed interval (d, s, e) is a maximal span of continuous
\* presence: s and e are sightings of d, consecutive sightings inside [s, e]
\* are at most threshold apart, and the sightings next before s and next
\* after e are more than threshold away.
MaximalSpans ==
    \A d \in Devices :
        \A k \in 1..Len(device_intervals[d]) :
            LET s == device_intervals[d][k][1]
                e == device_intervals[d][k][2]
                h == seen[d]
            IN  /\ s \in Range(h)
                /\ e \in Range(h)
                /\ \A i \in 2..Len(h) :
                      /\ (s <= h[i - 1] /\ h[i] <= e) => ~Silent(h[i - 1], h[i])
                      /\ (h[i - 1] < s /\ h[i] = s) => Silent(h[i - 1], h[i])
                      /\ (h[i - 1] = e /\ h[i] > e) => Silent(h[i - 1], h[i])

\* C5: the closed intervals of one device are pairwise non-overlapping and
\* in increasing order of start: each starts no earlier than every earlier
\* one ends, and later than every earlier one starts.
NoOverlap ==
    \A d \in Devices :
        \A i, j \in 1..Len(device_intervals[d]) :
            i < j =>
                /\ device_intervals[d][j][1] >= device_intervals[d][i][2]
                /\ device_intervals[d][j][1] > device_intervals[d][i][1]

\* C5 witness: a device with two closed intervals.
TwoIntervals ==
    \E d \in Devices : Len(device_intervals[d]) >= 2

\* C6: every recorded interval has end >= start, and the pair the report
\* emits for it is in the same order (start value not greater than end value).
MonotonicDuration ==
    /\ \A d \in Devices : \A k \in 1..Len(device_intervals[d]) :
          device_intervals[d][k][2] >= device_intervals[d][k][1]
    /\ \A n \in 1..Len(formatted_wifi_data) :
          \A k \in 1..Len(formatted_wifi_data[n].durations) :
              formatted_wifi_data[n].durations[k][1] <=
                  formatted_wifi_data[n].durations[k][2]

\* A device whose span of presence up to its last sighting is in no interval.
HasOpenSpan(d) ==
    /\ last_seen[d] # NoTime
    /\ \A k \in 1..Len(device_intervals[d]) :
          device_intervals[d][k] # <<OpenStart(seen[d]), last_seen[d]>>

\* C7: the first finalize leaves no open span behind (it has produced the
\* full set of intervals), so that a second finalize has nothing to add.
FinalizeIdempotent ==
    pc = "done" => \A d \in Devices : ~HasOpenSpan(d)

\* C8, state part: a device never sighted has no entry, and what is held for
\* a device is what its own sightings alone produce, whatever sightings of
\* other devices are interleaved.
IsolatedState ==
    \A d \in Devices :
        LET alone == ReplayAlone(EmptyTracker, d, seen[d])
        IN  /\ seen[d] = <<>> => (last_seen[d] = NoTime /\ device_intervals[d] = <<>>)
            /\ last_seen[d] = alone.last_seen[d]
            /\ device_intervals[d] = alone.device_intervals[d]

\* C8, step part: ingesting a snapshot leaves every absent device untouched.
IsolatedStep ==
    \A d \in Devices :
        (pc = "ingest" /\ d \notin Range(networks)) =>
            /\ last_seen'[d] = last_seen[d]
            /\ device_intervals'[d] = device_intervals[d]

\* C8: device isolation: ingest changes only the devices of the snapshot,
\* an unsighted device never gets an interval, and a device's intervals do
\* not depend on the sightings of other devices.
DeviceIsolation == [](IsolatedState) /\ [][IsolatedStep]_vars

\* C8 witness: both devices sighted, in different snapshots, one of them
\* with an interval and a snapshot ingested from which it was absent.
InterleavedDevices ==
    /\ seen["A"] # <<>>
    /\ seen["B"] # <<>>
    /\ device_intervals["A"] # <<>>
    /\ last_seen["A"] # last_seen["B"]
    /\ pc = "sleep"
    /\ "A" \notin Range(networks)

\* C9: when the loop ends because a scan failed, the intervals accumulated
\* so far have been reported before the run exits.
FinalizeOnEveryExit ==
    (pc = "failed" /\ IntervalKeys # {}) =>
        (written /\ IntervalKeys \subseteq ReportedMacs)

\* C10: when the report is built, every key of device_intervals is found in
\* networks, so the unwrap never panics.
UnwrapNeverFails ==
    /\ pc = "report" => IntervalKeys \subseteq Range(networks)
    /\ pc # "panicked"

====
